---- MODULE Spec2Model ----
(***************************************************************************)
(* Model of GethTraceBuilder                                               *)
(* (crates/revm/revm-inspectors/src/tracing/builder/geth.rs).              *)
(*                                                                         *)
(* The builder holds the arena of recorded call trace nodes and offers     *)
(* three operations: geth_traces (flat struct log), geth_call_traces       *)
(* (nested call frames) and geth_prestate_traces (prestate / state diff).  *)
(* Each operation is modelled as its own specification over the shared     *)
(* variables; the loops of the source are unrolled into one action per     *)
(* iteration.                                                              *)
(*                                                                         *)
(* Node indices are the 0-based arena indices of the source; the node with *)
(* index i is nodes[i + 1].                                                *)
(***************************************************************************)
EXTENDS Integers, Sequences, FiniteSets, TLC

VARIABLES
    nodes,            \* GethTraceBuilder.nodes: the arena of CallTraceNode
    pc,               \* position of the running operation
    \* ---- geth_call_traces
    call_opts,        \* CallConfig: [only_top_call]
    debug_assertions, \* whether the build compiles debug_assert!
    call_frames,      \* Vec<(usize, CallFrame)>
    popped,           \* the indices taken by call_frames.pop(), in order
    call_result,      \* the CallFrame returned
    \* ---- geth_traces
    opts,             \* GethDefaultTracingOptions: [storage, return_data]
    step_stack,       \* VecDeque<CallTraceStepStackItem>
    storage,          \* HashMap<Address, BTreeMap<H256, H256>>
    struct_logs,      \* Vec<StructLog>
    \* ---- geth_prestate_traces
    account_diffs,    \* the entries of `state` the loop has not visited yet
    is_diff,          \* prestate_config.is_diff_mode()
    db_log,           \* the calls made to the accessor `db`, with their outcome
    pre,              \* prestate.0 (prestate mode) or state_diff.pre (diff mode)
    post,             \* state_diff.post
    pre_result        \* the Result<PreStateFrame, DB::Error> returned

callVars == <<call_opts, debug_assertions, call_frames, popped, call_result>>

traceVars == <<opts, step_stack, storage, struct_logs>>

preVars == <<account_diffs, is_diff, db_log, pre, post, pre_result>>

vars == <<nodes, pc, callVars, traceVars, preVars>>

\* Option<T>: None is the empty sequence, Some(x) the one-element sequence.
None == <<>>

Some(x) == <<x>>

Unwrap(o) == o[1]

\* ---------------------------------------------------------------- bounds
MaxCallNodes == 4

MaxNodes == 3

MaxSteps == 4

MaxChanges == 2

Addresses == {"a1", "a2"}

\* The addresses are interchangeable: the root's is fixed to the first.
RootAddress == "a1"

Keys == {1, 2}

Values == {1, 2}

MaxAccounts == 1

MaxPreNodes == 1

Balances == {0, 1}

Nonces == {0, 1}

EmptyBytes == ""

CodeBytes == {EmptyBytes, "c1"}

DbErrors == {"e1", "e2"}

PreKeys == {1}

\* U256::ZERO / H256::zero(), the value `is_zero` tests for.
ZeroValue == 0

PreValues == {ZeroValue, 1}

\* ---------------------------------------------------------------- helpers
Range(s) == {s[k] : k \in 1..Len(s)}

NumNodes == Len(nodes)

Node(i) == nodes[i + 1]

NodeIds == 0..(NumNodes - 1)

\* Maps (HashMap, BTreeMap) are functions with a finite domain.
EmptyMap == <<>>

MapInsert(m, k, v) == [x \in (DOMAIN m) \cup {k} |-> IF x = k THEN v ELSE m[x]]

Reverse(s) == [k \in 1..Len(s) |-> s[Len(s) + 1 - k]]

\* The variables of an operation that is not running.
TraceIdle ==
    /\ opts = [storage |-> FALSE, return_data |-> FALSE]
    /\ step_stack = <<>>
    /\ storage = EmptyMap
    /\ struct_logs = <<>>

CallIdle ==
    /\ call_opts = [only_top_call |-> FALSE]
    /\ debug_assertions = FALSE
    /\ call_frames = <<>>
    /\ popped = <<>>
    /\ call_result = None

PreIdle ==
    /\ account_diffs = EmptyMap
    /\ is_diff = FALSE
    /\ db_log = <<>>
    /\ pre = EmptyMap
    /\ post = EmptyMap
    /\ pre_result = None

\* ================================================================
\* geth_traces
\* ================================================================

\* CallTraceNode::call_step_stack: the node's steps in execution order, each
\* with its owning node and the child node it calls, if any.
CallStepStack(i) ==
    [k \in 1..Len(Node(i).steps) |->
        [trace_node |-> i, step |-> k - 1, call_child_id |-> Node(i).steps[k].child]]

\* CallTraceNode::push_steps_on_stack: the steps are pushed in reverse, so
\* that the first step is the last item of the stack.
PushStepsOnStack(i, stack) == stack \o Reverse(CallStepStack(i))

\* The step a stack item refers to.
StepOf(item) == Node(item.trace_node).steps[item.step + 1]

\* CallTraceStep::convert_to_geth_struct_log: the entry carries the step's own
\* data (abstracted to the step's node and index) and neither storage nor
\* return data.
ConvertToGethStructLog(item) ==
    [node |-> item.trace_node, step |-> item.step, storage |-> None, return_data |-> None]

\* `storage.entry(step.contract).or_default()`
StorageEntry(st, addr) == IF addr \in DOMAIN st THEN st ELSE MapInsert(st, addr, EmptyMap)

\* Variant: the table attached to the entry holds the step's own change only.
InsertChangeAlone(table, change) == MapInsert(EmptyMap, change.key, change.value)

\* `contract_storage.insert(change.key.into(), change.value.into())`
InsertChange(table, change) == MapInsert(table, change.key, change.value)

\* Variant: the child's steps are put under the steps still waiting.
PushChildStepsUnder(stack, item) ==
    IF item.call_child_id # None
    THEN Reverse(CallStepStack(Unwrap(item.call_child_id))) \o stack
    ELSE stack

\* Lines 79-82: a call step pushes the steps of the child it called.
PushChildSteps(stack, item) ==
    IF item.call_child_id # None
    THEN PushStepsOnStack(Unwrap(item.call_child_id), stack)
    ELSE stack

\* Lines 96-105: the empty check and the seeding of the step stack with the
\* root's steps.
TraceStart ==
    /\ pc = "trace_start"
    /\ IF NumNodes = 0
       THEN /\ pc' = "done"
            /\ UNCHANGED step_stack
       ELSE /\ step_stack' = PushStepsOnStack(0, <<>>)
            /\ pc' = "fill"
    /\ UNCHANGED <<nodes, opts, storage, struct_logs, callVars, preVars>>

\* Lines 56-83: one iteration of the loop over the step stack.
FillStep ==
    /\ pc = "fill"
    /\ step_stack # <<>>
    /\ LET item == step_stack[Len(step_stack)]
           rest == SubSeq(step_stack, 1, Len(step_stack) - 1)
           step == StepOf(item)
           log0 == ConvertToGethStructLog(item)
           st1 == IF opts.storage THEN StorageEntry(storage, step.contract) ELSE storage
           changed == opts.storage /\ step.storage_change # None
           st2 == IF changed
                  THEN [st1 EXCEPT ![step.contract] =
                                       InsertChange(@, Unwrap(step.storage_change))]
                  ELSE st1
           log1 == IF changed
                   THEN [log0 EXCEPT !.storage = Some(st2[step.contract])]
                   ELSE log0
           log2 == IF opts.return_data
                   THEN [log1 EXCEPT !.return_data = Some(Node(item.trace_node).output)]
                   ELSE log1
       IN  /\ storage' = st2
           /\ struct_logs' = Append(struct_logs, log2)
           /\ step_stack' = PushChildSteps(rest, item)
    /\ UNCHANGED <<nodes, pc, opts, callVars, preVars>>

\* Lines 56-57 and 107-113: the stack is empty, the frame is returned.
TraceFinish ==
    /\ pc = "fill"
    /\ step_stack = <<>>
    /\ pc' = "done"
    /\ UNCHANGED <<nodes, opts, step_stack, storage, struct_logs, callVars, preVars>>

\* The arenas geth_traces is run on.  Every node but the root has a parent
\* with a smaller index, and is referenced by exactly one step of its parent;
\* a parent's steps reference its children in ascending index order.
ParentVecs(n) ==
    IF n = 0 THEN {<<>>} ELSE
    { pv \in [0..(n - 1) -> {None} \cup {Some(p) : p \in 0..(n - 1)}] :
        /\ pv[0] = None
        /\ \A i \in 1..(n - 1) : pv[i] # None /\ Unwrap(pv[i]) < i }

IsSome(o) == o # None

\* The child references a node's steps may carry, given its children cs and
\* at most maxlen steps.
Layouts(cs, maxlen) ==
    { s \in UNION { [1..L -> {None} \cup {Some(c) : c \in cs}] : L \in 0..maxlen } :
        LET refs == SelectSeq(s, IsSome)
        IN  /\ Len(refs) = Cardinality(cs)
            /\ \A k \in 1..Len(refs) :
                  Cardinality({c \in cs : c < Unwrap(refs[k])}) = k - 1 }

\* The layouts of nodes i..n-1, with at most budget steps in all.
RECURSIVE LayoutProducts(_, _, _, _)
LayoutProducts(pv, i, n, budget) ==
    IF i = n THEN {<<>>}
    ELSE UNION { { <<l>> \o rest : rest \in LayoutProducts(pv, i + 1, n, budget - Len(l)) }
                 : l \in Layouts({c \in 0..(n - 1) : pv[c] = Some(i)}, budget) }

\* The steps that may carry a storage change: those that are not calls.
Sites(lay) ==
    UNION { {<<i, k>> : k \in {j \in 1..Len(lay[i]) : lay[i][j] = None}} : i \in 1..Len(lay) }

ChangeSets(lay, maxChanges, changes) ==
    UNION { [P -> changes] :
              P \in {Q \in SUBSET Sites(lay) : Cardinality(Q) <= maxChanges} }

Arena(pv, addr, lay, chg) ==
    [i \in 1..Len(lay) |->
        [parent |-> pv[i - 1],
         selfdestruct |-> FALSE,
         address |-> addr[i],
         output |-> i - 1,
         steps |-> [k \in 1..Len(lay[i]) |->
                      [child |-> lay[i][k],
                       contract |-> addr[i],
                       storage_change |-> IF <<i, k>> \in DOMAIN chg
                                          THEN Some(chg[<<i, k>>]) ELSE None]]]]

\* ns is an arena of at most maxNodes nodes with at most maxSteps steps and
\* maxChanges storage changes in all, the changes drawn from `changes`.
IsArena(ns, maxNodes, maxSteps, maxChanges, changes) ==
    \E n \in 0..maxNodes :
      \E pv \in ParentVecs(n) :
        \E lay \in LayoutProducts(pv, 0, n, maxSteps) :
          \E addr \in {a \in [1..n -> Addresses] : n > 0 => a[1] = RootAddress} :
            \E chg \in ChangeSets(lay, maxChanges, changes) :
              ns = Arena(pv, addr, lay, chg)

\* StorageChange { key, value, had_value }: geth_traces reads key and value only.
TraceChanges == [key : Keys, value : Values, had_value : {ZeroValue}]

InitTraces ==
    /\ IsArena(nodes, MaxNodes, MaxSteps, MaxChanges, TraceChanges)
    /\ pc = "trace_start"
    /\ opts \in [storage : BOOLEAN, return_data : BOOLEAN]
    /\ step_stack = <<>>
    /\ storage = EmptyMap
    /\ struct_logs = <<>>
    /\ CallIdle
    /\ PreIdle

NextTraces == TraceStart \/ FillStep \/ TraceFinish

SpecTraces == InitTraces /\ [][NextTraces]_vars

\* ---------------------------------------------------------------- 
\* Properties of geth_traces
\* ---------------------------------------------------------------- 

\* The execution order of the steps of node i and of everything it calls: each
\* step of i, followed right away by the expansion of the child it references.
RECURSIVE Expand(_), ExpandFrom(_, _)
ExpandFrom(i, k) ==
    IF k > Len(Node(i).steps) THEN <<>>
    ELSE <<[node |-> i, step |-> k - 1]>>
         \o (IF Node(i).steps[k].child # None
             THEN Expand(Unwrap(Node(i).steps[k].child)) ELSE <<>>)
         \o ExpandFrom(i, k + 1)

Expand(i) == ExpandFrom(i, 1)

ExecOrder == IF NumNodes = 0 THEN <<>> ELSE Expand(0)

LoggedSteps == [p \in 1..Len(struct_logs) |->
                   [node |-> struct_logs[p].node, step |-> struct_logs[p].step]]

IsPrefix(s, t) == Len(s) <= Len(t) /\ s = SubSeq(t, 1, Len(s))

\* C1: the flat log lists the steps in execution order: a node's steps up to
\* and including a call, then the called child's steps expanded the same way,
\* then the node's remaining steps.
C1_ExecutionOrder ==
    LET order == ExecOrder
        logged == LoggedSteps
    IN  /\ IsPrefix(logged, order)
        /\ pc = "done" => logged = order

\* A call two levels deep, with a step of the root left after its call.
C1_Witness ==
    /\ pc = "done"
    /\ NumNodes = 3
    /\ Node(2).parent = Some(1)
    /\ Node(2).steps # <<>>
    /\ Len(Node(0).steps) >= 2
    /\ Node(0).steps[1].child # None
    /\ Node(0).steps[Len(Node(0).steps)].child = None

StepAt(e) == Node(e.node).steps[e.step + 1]

\* The last-written value per key over the storage changes made to the
\* contract of the p-th step in `order` by the steps at or before it.
CumulativeTable(order, p) ==
    LET writes == {q \in 1..p : /\ StepAt(order[q]).contract = StepAt(order[p]).contract
                                /\ StepAt(order[q]).storage_change # None}
        keyOf(q) == Unwrap(StepAt(order[q]).storage_change).key
        last(key) == CHOOSE q \in writes :
                        /\ keyOf(q) = key
                        /\ \A r \in writes : keyOf(r) = key => r <= q
    IN  [key \in {keyOf(q) : q \in writes} |->
            Unwrap(StepAt(order[last(key)]).storage_change).value]

\* C10: with storage capture enabled the entry of a step that carries a
\* storage change has the cumulative table of the step's contract attached;
\* every other entry, and every entry when capture is disabled, has none.
C10_StorageSnapshots ==
    LET order == ExecOrder
    IN  \A p \in 1..Len(struct_logs) :
            IF opts.storage /\ StepAt(struct_logs[p]).storage_change # None
            THEN struct_logs[p].storage = Some(CumulativeTable(order, p))
            ELSE struct_logs[p].storage = None

\* Two nodes running the same contract both change its storage.
C10_Witness ==
    /\ pc = "done"
    /\ opts.storage
    /\ \E p, q \in 1..Len(struct_logs) :
          /\ q < p
          /\ struct_logs[q].storage # None
          /\ struct_logs[p].storage # None
          /\ struct_logs[q].node # struct_logs[p].node
          /\ StepAt(struct_logs[q]).contract = StepAt(struct_logs[p]).contract
          /\ \E r \in 1..Len(struct_logs) : q < r /\ r < p

\* ================================================================
\* geth_call_traces
\* ================================================================

\* CallTraceNode::geth_empty_call_frame: a frame built from the node's call
\* metadata, with no children yet.  The metadata is abstracted to the node's
\* index.
GethEmptyCallFrame(i) == [kind |-> "call", node |-> i, calls |-> <<>>]

\* CallTraceNode::geth_selfdestruct_call_trace: Some(frame) iff the node
\* performed a selfdestruct.
GethSelfdestructCallTrace(i) ==
    IF Node(i).selfdestruct
    THEN Some([kind |-> "selfdestruct", node |-> i, calls |-> <<>>])
    ELSE None

\* CallFrame::default(), returned for an empty arena.
DefaultCallFrame == [kind |-> "default", node |-> 0, calls |-> <<>>]

\* `frame.calls.push(selfdestruct)` when the node has one.
PushSelfdestruct(frame, i) ==
    IF GethSelfdestructCallTrace(i) = None
    THEN frame
    ELSE [frame EXCEPT !.calls = Append(@, Unwrap(GethSelfdestructCallTrace(i)))]

\* The entry of call_frames that receives the selfdestruct frame of node idx
\* in the build loop: `call_frames.last_mut()`.
SelfdestructTargetPos(frames, idx) == Len(frames)

\* Variant: the popped frame is pushed at the back of the parent's calls.
InsertCallAtBack(calls, call) == Append(calls, call)

\* Variant: the popped frame overwrites the parent's calls.
InsertCallOverwriting(calls, call) == <<call>>

\* `parent_frame.1.calls.insert(0, call)`
InsertCall(calls, call) == <<call>> \o calls

\* Variant: the popped frame is moved into the frame below it on the work list.
ParentFramePosPrevious(idx) == idx

\* The entry of call_frames a popped frame is moved into: `call_frames[parent]`.
ParentFramePos(idx) == Unwrap(Node(idx).parent) + 1

\* Lines 123-147: the empty check, the root frame, its selfdestruct, the
\* only_top_call return and the seeding of call_frames.
CallStart ==
    /\ pc = "call_start"
    /\ IF NumNodes = 0
       THEN /\ call_result' = Some(DefaultCallFrame)
            /\ pc' = "returned"
            /\ UNCHANGED call_frames
       ELSE LET root_call_frame == PushSelfdestruct(GethEmptyCallFrame(0), 0)
            IN  IF call_opts.only_top_call
                THEN /\ call_result' = Some(root_call_frame)
                     /\ pc' = "returned"
                     /\ UNCHANGED call_frames
                ELSE /\ call_frames' = <<[idx |-> 0, frame |-> root_call_frame]>>
                     /\ pc' = IF NumNodes > 1 THEN "build" ELSE "rollup"
                     /\ UNCHANGED call_result
    /\ UNCHANGED <<nodes, call_opts, debug_assertions, popped, traceVars, preVars>>

\* Lines 149-156: one iteration of the loop over nodes.iter().enumerate().skip(1).
BuildFrame ==
    /\ pc = "build"
    /\ LET idx == Len(call_frames)
           tgt == SelfdestructTargetPos(call_frames, idx)
           with_sd == [call_frames EXCEPT ![tgt].frame = PushSelfdestruct(@, idx)]
       IN  /\ call_frames' = Append(with_sd, [idx |-> idx, frame |-> GethEmptyCallFrame(idx)])
           /\ pc' = IF idx + 1 < NumNodes THEN "build" ELSE "rollup"
    /\ UNCHANGED <<nodes, call_opts, debug_assertions, popped, call_result, traceVars, preVars>>

\* Lines 161-174: one iteration of the rollup loop.
RollupStep ==
    /\ pc = "rollup"
    /\ IF call_frames = <<>>
       THEN \* .expect("call frames not empty")
            /\ pc' = "panic"
            /\ UNCHANGED <<call_frames, popped, call_result>>
       ELSE LET top == call_frames[Len(call_frames)]
                rest == SubSeq(call_frames, 1, Len(call_frames) - 1)
                idx == top.idx
                call == top.frame
            IN  /\ popped' = Append(popped, idx)
                /\ IF Node(idx).parent # None
                   THEN IF ParentFramePos(idx) > Len(rest)
                        THEN \* call_frames[parent]: index out of bounds
                             /\ pc' = "panic"
                             /\ call_frames' = rest
                             /\ UNCHANGED call_result
                        ELSE /\ call_frames' =
                                  [rest EXCEPT ![ParentFramePos(idx)].frame.calls =
                                                    InsertCall(@, call)]
                             /\ pc' = "rollup"
                             /\ UNCHANGED call_result
                   ELSE IF debug_assertions /\ rest # <<>>
                        THEN \* debug_assert!(call_frames.is_empty(), ...)
                             /\ pc' = "panic"
                             /\ call_frames' = rest
                             /\ UNCHANGED call_result
                        ELSE /\ call_result' = Some(call)
                             /\ call_frames' = rest
                             /\ pc' = "returned"
    /\ UNCHANGED <<nodes, call_opts, debug_assertions, traceVars, preVars>>

\* The arenas geth_call_traces is run on: node 0 is the root and has no
\* parent; every other node names a parent index inside the arena or, in a
\* malformed arena, none.
CallArenas ==
    {<<>>} \cup
    UNION { { ns \in [1..n -> [parent : {None} \cup {Some(p) : p \in 0..(n - 1)},
                              selfdestruct : BOOLEAN,
                              address : {RootAddress},
                              output : {0},
                              steps : {<<>>}]] :
                ns[1].parent = None }
            : n \in 1..MaxCallNodes }

InitCalls ==
    /\ nodes \in CallArenas
    /\ pc = "call_start"
    /\ call_opts \in [only_top_call : BOOLEAN]
    /\ debug_assertions \in BOOLEAN
    /\ call_frames = <<>>
    /\ popped = <<>>
    /\ call_result = None
    /\ TraceIdle
    /\ PreIdle

NextCalls == CallStart \/ BuildFrame \/ RollupStep

SpecCalls == InitCalls /\ [][NextCalls]_vars

\* ---------------------------------------------------------------- 
\* Properties of geth_call_traces
\* ---------------------------------------------------------------- 

\* The arena invariant of the data model: the root has no parent and every
\* other node's parent index is strictly less than its own.
WellFormed ==
    /\ NumNodes >= 1
    /\ Node(0).parent = None
    /\ \A i \in 1..(NumNodes - 1) :
          Node(i).parent # None /\ Unwrap(Node(i).parent) < i

RolledUp == pc = "returned" /\ ~call_opts.only_top_call /\ WellFormed

IsCallFrame(f) == f.kind = "call"

RECURSIVE AllFrames(_)
AllFrames(f) == {f} \cup UNION {AllFrames(f.calls[k]) : k \in 1..Len(f.calls)}

RECURSIVE CountCallFrames(_), CountCallFramesIn(_)
CountCallFramesIn(calls) ==
    IF calls = <<>> THEN 0
    ELSE CountCallFrames(Head(calls)) + CountCallFramesIn(Tail(calls))

CountCallFrames(f) == (IF IsCallFrame(f) THEN 1 ELSE 0) + CountCallFramesIn(f.calls)

\* The node indices of the frames of child nodes in f.calls, in list order.
ChildNodeIds(f) ==
    LET cs == SelectSeq(f.calls, IsCallFrame) IN [k \in 1..Len(cs) |-> cs[k].node]

StrictlyAscending(s) == \A j, k \in 1..Len(s) : j < k => s[j] < s[k]

StrictlyDescending(s) == \A j, k \in 1..Len(s) : j < k => s[j] > s[k]

\* How many times the frame of node i occurs as a direct child anywhere in f.
RECURSIVE Occurrences(_, _), OccurrencesIn(_, _)
OccurrencesIn(calls, i) ==
    IF calls = <<>> THEN 0
    ELSE (IF IsCallFrame(Head(calls)) /\ Head(calls).node = i THEN 1 ELSE 0)
         + Occurrences(Head(calls), i) + OccurrencesIn(Tail(calls), i)

Occurrences(f, i) == OccurrencesIn(f.calls, i)

\* The nodes whose frame in the tree f has x as a direct child.
HoldersOf(f, x) ==
    {g.node : g \in {h \in AllFrames(f) : IsCallFrame(h) /\ x \in Range(h.calls)}}

HoldersOfNode(f, i) ==
    {g.node : g \in {h \in AllFrames(f) :
                        /\ IsCallFrame(h)
                        /\ \E k \in 1..Len(h.calls) :
                              IsCallFrame(h.calls[k]) /\ h.calls[k].node = i}}

SelfdestructFrame(i) == [kind |-> "selfdestruct", node |-> i, calls |-> <<>>]

\* C2: on a well-formed arena, at every level of the returned frame tree the
\* frames of child nodes are listed in ascending node-index order.
C2_RollupOrder ==
    RolledUp => \A f \in AllFrames(Unwrap(call_result)) : StrictlyAscending(ChildNodeIds(f))

C2_Witness ==
    /\ RolledUp
    /\ \E f \in AllFrames(Unwrap(call_result)) :
          Len(ChildNodeIds(f)) >= 2 /\ Len(f.calls) > Len(ChildNodeIds(f))

\* C3: on a non-empty well-formed arena the returned frame tree holds, not
\* counting selfdestruct frames, exactly one frame per node.
C3_FrameCount ==
    RolledUp => CountCallFrames(Unwrap(call_result)) = NumNodes

C3_Witness ==
    /\ RolledUp
    /\ NumNodes >= 3
    /\ \E f \in AllFrames(Unwrap(call_result)) : f.kind = "selfdestruct"

\* C7 (as claimed): a rollup over an arena that has a parentless node other
\* than node 0 never returns a call frame.
C7_MalformedNeverReturns ==
    (/\ ~call_opts.only_top_call
     /\ \E i \in 1..(NumNodes - 1) : Node(i).parent = None)
    => pc # "returned"

\* C8 (as claimed): the selfdestruct frame of every non-root node ends up in
\* the child list of the frame of that node's parent.
C8_SelfdestructInParentFrame ==
    RolledUp =>
        \A i \in 1..(NumNodes - 1) :
            Node(i).selfdestruct =>
                Unwrap(Node(i).parent) \in HoldersOf(Unwrap(call_result), SelfdestructFrame(i))

\* C9: on a well-formed arena the rollup never aborts, pops the frames in
\* strictly descending index order until all are popped, and returns the
\* frame of node 0 in which the frame of every other node i is a direct child
\* of the frame of parent(i), once, and of no other frame.
C9_RollupToParents ==
    (WellFormed /\ ~call_opts.only_top_call) =>
        /\ pc # "panic"
        /\ StrictlyDescending(popped)
        /\ pc = "returned" \/ ENABLED (CallStart \/ BuildFrame \/ RollupStep)
        /\ pc = "returned" =>
              /\ popped = [k \in 1..NumNodes |-> NumNodes - k]
              /\ Unwrap(call_result).kind = "call"
              /\ Unwrap(call_result).node = 0
              /\ \A i \in 1..(NumNodes - 1) :
                    /\ HoldersOfNode(Unwrap(call_result), i) = {Unwrap(Node(i).parent)}
                    /\ Occurrences(Unwrap(call_result), i) = 1

C9_Witness ==
    /\ RolledUp
    /\ NumNodes >= 4
    /\ \E i \in 1..(NumNodes - 1) : Unwrap(Node(i).parent) # i - 1
    /\ \E i \in 1..(NumNodes - 1) : Unwrap(Node(i).parent) # 0

\* ================================================================
\* geth_prestate_traces
\* ================================================================

\* Result<T, E>
Ok(x) == [tag |-> "Ok", val |-> x]

Err(e) == [tag |-> "Err", err |-> e]

\* Result::ok
ResultOk(r) == IF r.tag = "Ok" THEN Some(r.val) ELSE None

\* revm::primitives::KECCAK_EMPTY, the hash of the empty code.
KECCAK_EMPTY == "KECCAK_EMPTY"

HashOf(bytes) == IF bytes = EmptyBytes THEN KECCAK_EMPTY ELSE "hash_c1"

\* AccountInfo as the accessor returns it: the code may or may not be loaded,
\* the code hash is the hash of the account's code.
DbAccountInfos ==
    { [balance |-> b, nonce |-> n, code |-> c, code_hash |-> HashOf(bytes)] :
        b \in Balances, n \in Nonces,
        <<bytes, c>> \in {<<y, None>> : y \in CodeBytes} \cup {<<y, Some(y)>> : y \in CodeBytes} }

\* AccountInfo::default(), used by `unwrap_or_default` for an absent account.
DefaultAccountInfo ==
    [balance |-> 0, nonce |-> 0, code |-> Some(EmptyBytes), code_hash |-> KECCAK_EMPTY]

\* AccountInfo::is_empty
IsEmptyAccount(info) ==
    info.balance = 0 /\ info.nonce = 0 /\ info.code_hash = KECCAK_EMPTY

\* The outcomes of `db.basic(addr)`.
BasicResults ==
    {Err(e) : e \in DbErrors} \cup {Ok(None)} \cup {Ok(Some(i)) : i \in DbAccountInfos}

\* The outcomes of `db.code_by_hash(hash)`.
CodeByHashResults(hash) ==
    {Err(e) : e \in DbErrors} \cup {Ok(y) : y \in {z \in CodeBytes : HashOf(z) = hash}}

\* The entries of `state`: the post-execution account info and the destroyed flag.
ChangedAccounts ==
    [balance : Balances, nonce : Nonces,
     code : {None} \cup {Some(y) : y \in CodeBytes},
     is_destroyed : BOOLEAN]

\* AccountState::default()
DefaultAccountState ==
    [balance |-> None, nonce |-> None, code |-> None, storage |-> None,
     change_type |-> "Modify"]

\* `.filter(|code| !code.is_empty())`
FilterNonEmpty(o) == IF o # None /\ Unwrap(o) = EmptyBytes THEN None ELSE o

\* Lines 223-232: whether the pre-state code has to be fetched by its hash.
NeedsCodeByHash(db_acc) == db_acc.code = None /\ db_acc.code_hash # KECCAK_EMPTY

\* Lines 223-232: the pre-state code, `cr` being the outcome of code_by_hash
\* when it is called.
PreCode(db_acc, cr) ==
    IF db_acc.code # None THEN db_acc.code
    ELSE IF db_acc.code_hash = KECCAK_EMPTY THEN None
    ELSE ResultOk(cr)

\* Lines 202-208: the entry of prestate mode.
PrestateModeState(db_acc) ==
    [balance |-> Some(db_acc.balance),
     nonce |-> Some(db_acc.nonce),
     code |-> db_acc.code,
     storage |-> None,
     change_type |-> "Modify"]

\* Lines 236-246
DiffPreState(db_acc, cr) ==
    [balance |-> Some(db_acc.balance),
     nonce |-> Some(db_acc.nonce),
     code |-> FilterNonEmpty(PreCode(db_acc, cr)),
     storage |-> None,
     change_type |-> IF IsEmptyAccount(db_acc) THEN "Create" ELSE "Modify"]

\* Lines 248-263
DiffPostState(changed_acc) ==
    [balance |-> Some(changed_acc.balance),
     nonce |-> Some(changed_acc.nonce),
     code |-> FilterNonEmpty(changed_acc.code),
     storage |-> None,
     change_type |-> IF changed_acc.is_destroyed THEN "Destroy" ELSE "Modify"]

\* What db_log keeps of an outcome: success, or the error.
Outcome(r) == IF r.tag = "Err" THEN r ELSE [tag |-> "Ok"]

MapRemove(m, k) == [x \in (DOMAIN m) \ {k} |-> m[x]]

\* Lines 198-210 and 215-267: one iteration of the loop over account_diffs.
\* `state` is a HashMap, so the entries are visited in any order.
PrestateAccount ==
    /\ pc = "pre_loop"
    /\ \E addr \in DOMAIN account_diffs :
       \E r \in BasicResults :
          LET changed_acc == account_diffs[addr]
              db_acc == IF r.val = None THEN DefaultAccountInfo ELSE Unwrap(r.val)
              basic_call == [call |-> "basic", res |-> Outcome(r)]
          IN  /\ account_diffs' = MapRemove(account_diffs, addr)
              /\ IF r.tag = "Err"
                 THEN \* db.basic(addr)?
                      /\ pre_result' = Some(Err(r.err))
                      /\ pc' = "pre_done"
                      /\ db_log' = Append(db_log, basic_call)
                      /\ UNCHANGED <<pre, post>>
                 ELSE IF ~is_diff
                 THEN /\ pre' = MapInsert(pre, addr, PrestateModeState(db_acc))
                      /\ db_log' = Append(db_log, basic_call)
                      /\ UNCHANGED <<pc, post, pre_result>>
                 ELSE IF NeedsCodeByHash(db_acc)
                 THEN \E cr \in CodeByHashResults(db_acc.code_hash) :
                      /\ post' = MapInsert(post, addr, DiffPostState(changed_acc))
                      /\ pre' = MapInsert(pre, addr, DiffPreState(db_acc, cr))
                      /\ db_log' = db_log \o <<basic_call,
                                               [call |-> "code_by_hash", res |-> Outcome(cr)]>>
                      /\ UNCHANGED <<pc, pre_result>>
                 ELSE /\ post' = MapInsert(post, addr, DiffPostState(changed_acc))
                      /\ pre' = MapInsert(pre, addr, DiffPreState(db_acc, Err("unused")))
                      /\ db_log' = Append(db_log, basic_call)
                      /\ UNCHANGED <<pc, pre_result>>
    /\ UNCHANGED <<nodes, is_diff, callVars, traceVars>>

\* CallTraceNode::geth_update_account_storage, for one storage change: the
\* value before or after the change is recorded in the entry of the step's
\* contract, which is created when missing.
RecordChange(states, addr, change, post_value) ==
    LET st0 == IF addr \in DOMAIN states THEN states
               ELSE MapInsert(states, addr, DefaultAccountState)
        table == IF st0[addr].storage = None THEN EmptyMap ELSE Unwrap(st0[addr].storage)
        v == IF post_value THEN change.value ELSE change.had_value
    IN  [st0 EXCEPT ![addr].storage = Some(MapInsert(table, change.key, v))]

RECURSIVE UpdateFromSteps(_, _, _, _)
UpdateFromSteps(states, steps, k, post_value) ==
    IF k > Len(steps) THEN states
    ELSE UpdateFromSteps(
             IF steps[k].storage_change = None THEN states
             ELSE RecordChange(states, steps[k].contract,
                               Unwrap(steps[k].storage_change), post_value),
             steps, k + 1, post_value)

\* CallTraceNode::geth_update_account_storage
GethUpdateAccountStorage(states, i, post_value) ==
    UpdateFromSteps(states, Node(i).steps, 1, post_value)

\* CallTraceNode::geth_update_account_storage_diff_mode
GethUpdateAccountStorageDiffMode(states, i, post_value) ==
    UpdateFromSteps(states, Node(i).steps, 1, post_value)

\* Lines 274-282
RECURSIVE UpdateStorageFromTracePrestateModeFrom(_, _, _)
UpdateStorageFromTracePrestateModeFrom(states, i, post_value) ==
    IF i >= NumNodes THEN states
    ELSE UpdateStorageFromTracePrestateModeFrom(
             GethUpdateAccountStorage(states, i, post_value), i + 1, post_value)

UpdateStorageFromTracePrestateMode(states, post_value) ==
    UpdateStorageFromTracePrestateModeFrom(states, 0, post_value)

\* Lines 284-292
RECURSIVE UpdateStorageFromTraceDiffModeFrom(_, _, _)
UpdateStorageFromTraceDiffModeFrom(states, i, post_value) ==
    IF i >= NumNodes THEN states
    ELSE UpdateStorageFromTraceDiffModeFrom(
             GethUpdateAccountStorageDiffMode(states, i, post_value), i + 1, post_value)

UpdateStorageFromTraceDiffMode(states, post_value) ==
    UpdateStorageFromTraceDiffModeFrom(states, 0, post_value)

\* `map.get(addr).cloned().unwrap_or_default()`
GetOrDefault(m, addr) == IF addr \in DOMAIN m THEN m[addr] ELSE DefaultAccountState

\* Variant: created accounts are kept in the pre mapping.
KeepPreIfChanged(pre_state, post_state) == pre_state # post_state

\* Line 306: whether the pre entry goes into the diff.
KeepPre(pre_state, post_state) ==
    pre_state.change_type # "Create" /\ pre_state # post_state

\* Line 321: whether the post entry is left out of the diff.
SkipPost(pre_state, post_state) ==
    post_state.change_type = "Destroy" \/ pre_state = post_state

\* Lines 308-311 and 341-344: zero-valued slots are dropped, and the storage
\* field with them when none is left.
StripZeroStorage(acc) ==
    LET table == IF acc.storage = None THEN EmptyMap ELSE Unwrap(acc.storage)
        kept == [key \in {x \in DOMAIN table : table[x] # ZeroValue} |-> table[key]]
    IN  [acc EXCEPT !.storage = IF DOMAIN kept # {} THEN Some(kept) ELSE None]

\* Variant: the nonce is left in the post entry whether it changed or not.
TrimPostButNonce(pre_state, post_state) ==
    [post_state EXCEPT
        !.balance = IF pre_state.balance = post_state.balance THEN None ELSE @,
        !.code = IF pre_state.code = post_state.code THEN None ELSE @]

\* Lines 328-339: the fields of the post entry that equal the pre entry's are
\* removed.
TrimPost(pre_state, post_state) ==
    [post_state EXCEPT
        !.balance = IF pre_state.balance = post_state.balance THEN None ELSE @,
        !.nonce = IF pre_state.nonce = post_state.nonce THEN None ELSE @,
        !.code = IF pre_state.code = post_state.code THEN None ELSE @]

\* Lines 294-349
DiffTraces(p, q) ==
    [pre |-> [addr \in {a \in DOMAIN p : KeepPre(p[a], GetOrDefault(q, a))} |->
                 StripZeroStorage(p[addr])],
     post |-> [addr \in {a \in DOMAIN q : ~SkipPost(GetOrDefault(p, a), q[a])} |->
                 StripZeroStorage(TrimPost(GetOrDefault(p, addr), q[addr]))]]

\* Lines 211-212: prestate mode, after the loop.
PrestateFinish ==
    /\ pc = "pre_loop"
    /\ DOMAIN account_diffs = {}
    /\ ~is_diff
    /\ pre' = UpdateStorageFromTracePrestateMode(pre, FALSE)
    /\ pre_result' = Some(Ok([mode |-> "Default", prestate |-> pre']))
    /\ pc' = "pre_done"
    /\ UNCHANGED <<nodes, account_diffs, is_diff, db_log, post, callVars, traceVars>>

\* Lines 268-270: diff mode, after the loop.
DiffFinish ==
    /\ pc = "pre_loop"
    /\ DOMAIN account_diffs = {}
    /\ is_diff
    /\ pre' = UpdateStorageFromTraceDiffMode(pre, FALSE)
    /\ post' = UpdateStorageFromTraceDiffMode(post, TRUE)
    /\ pre_result' = Some(Ok([mode |-> "Diff", diff |-> DiffTraces(pre', post')]))
    /\ pc' = "pre_done"
    /\ UNCHANGED <<nodes, account_diffs, is_diff, db_log, callVars, traceVars>>

\* StorageChange { key, value, had_value }: the slot, its value after the
\* change and its value before.
PreChanges == [key : PreKeys, value : PreValues, had_value : PreValues]

\* The arenas geth_prestate_traces is run on: a chain of calls, each node
\* making at most one storage change before it calls the next node.
IsStorageArena(ns) ==
    \E n \in 0..MaxPreNodes :
      \E addr \in {a \in [1..n -> Addresses] : n > 0 => a[1] = RootAddress} :
        \E writes \in [1..n -> {None} \cup {Some(c) : c \in PreChanges}] :
          LET pv == [i \in 0..(n - 1) |-> IF i = 0 THEN None ELSE Some(i - 1)]
              calls == [i \in 1..n |-> IF i < n THEN <<Some(i)>> ELSE <<>>]
              lay == [i \in 1..n |-> IF writes[i] = None THEN calls[i]
                                     ELSE <<None>> \o calls[i]]
              chg == [site \in {<<i, 1>> : i \in {j \in 1..n : writes[j] # None}} |->
                         Unwrap(writes[site[1]])]
          IN  ns = Arena(pv, addr, lay, chg)

InitPrestate ==
    /\ IsStorageArena(nodes)
    /\ pc = "pre_loop"
    /\ account_diffs \in UNION { [S -> ChangedAccounts] :
                                   S \in {T \in SUBSET Addresses : Cardinality(T) <= MaxAccounts} }
    /\ is_diff \in BOOLEAN
    /\ db_log = <<>>
    /\ pre = EmptyMap
    /\ post = EmptyMap
    /\ pre_result = None
    /\ CallIdle
    /\ TraceIdle

NextPrestate == PrestateAccount \/ PrestateFinish \/ DiffFinish

SpecPrestate == InitPrestate /\ [][NextPrestate]_vars

\* ---------------------------------------------------------------- 
\* Properties of geth_prestate_traces
\* ---------------------------------------------------------------- 

DiffReturned ==
    /\ pc = "pre_done"
    /\ is_diff
    /\ pre_result # None
    /\ Unwrap(pre_result).tag = "Ok"

OutDiff == Unwrap(pre_result).val.diff

\* The fields of `entry` that are unchanged between the pre-state and the
\* post-state of the address are absent from it.
UnchangedFieldsAbsent(entry, pre_state, post_state) ==
    /\ pre_state.balance = post_state.balance => entry.balance = None
    /\ pre_state.nonce = post_state.nonce => entry.nonce = None
    /\ pre_state.code = post_state.code => entry.code = None

\* C4 (as claimed): in the diff, the entries of the pre mapping and of the
\* post mapping both lack every balance, nonce and code field that is the same
\* in the pre-state and the post-state.
C4_BothEntriesTrimmed ==
    DiffReturned =>
        /\ \A a \in DOMAIN OutDiff.pre :
              UnchangedFieldsAbsent(OutDiff.pre[a], pre[a], GetOrDefault(post, a))
        /\ \A a \in DOMAIN OutDiff.post :
              UnchangedFieldsAbsent(OutDiff.post[a], GetOrDefault(pre, a), post[a])

\* C4 (amended): only the entries of the post mapping are trimmed: a balance,
\* nonce or code field is absent from the post entry when it is the same in
\* the pre-state and the post-state and carries the post-state value
\* otherwise; the entries of the pre mapping keep the balance, nonce and code
\* of the pre-state whether they changed or not.
C4_PostEntriesTrimmed ==
    DiffReturned =>
        /\ \A a \in DOMAIN OutDiff.post :
              LET e == OutDiff.post[a]
                  b == GetOrDefault(pre, a)
              IN  /\ e.balance = IF b.balance = post[a].balance THEN None ELSE post[a].balance
                  /\ e.nonce = IF b.nonce = post[a].nonce THEN None ELSE post[a].nonce
                  /\ e.code = IF b.code = post[a].code THEN None ELSE post[a].code
        /\ \A a \in DOMAIN OutDiff.pre :
              /\ OutDiff.pre[a].balance = pre[a].balance
              /\ OutDiff.pre[a].nonce = pre[a].nonce
              /\ OutDiff.pre[a].code = pre[a].code

\* An address whose only change is the nonce: the post entry holds the nonce
\* alone, the pre entry still holds the balance.
C4_Witness ==
    /\ DiffReturned
    /\ \E a \in DOMAIN OutDiff.post \cap DOMAIN OutDiff.pre :
          /\ pre[a].balance = post[a].balance
          /\ pre[a].code = post[a].code
          /\ pre[a].nonce # post[a].nonce
          /\ pre[a].storage = post[a].storage
          /\ OutDiff.post[a].nonce # None
          /\ OutDiff.post[a].balance = None
          /\ OutDiff.pre[a].balance # None

\* C5: in the diff, no address classified Destroy in the post-state is in the
\* post mapping and no address classified Create in the pre-state is in the
\* pre mapping.
C5_DiffExclusions ==
    DiffReturned =>
        /\ \A a \in DOMAIN post : post[a].change_type = "Destroy" => a \notin DOMAIN OutDiff.post
        /\ \A a \in DOMAIN pre : pre[a].change_type = "Create" => a \notin DOMAIN OutDiff.pre

\* A created account that is in the post mapping, and a destroyed account
\* that is in the pre mapping.
C5_Witness ==
    /\ DiffReturned
    /\ \E a \in DOMAIN pre :
          \/ pre[a].change_type = "Create" /\ a \in DOMAIN OutDiff.post
          \/ post[a].change_type = "Destroy" /\ a \in DOMAIN OutDiff.pre

\* C6 (as claimed): once the operation has returned, a failed accessor lookup
\* means that it returned that lookup's error, and a successful return means
\* that no lookup failed.
C6_AccessorErrorsPropagate ==
    pc = "pre_done" =>
        \A k \in 1..Len(db_log) :
            db_log[k].res.tag = "Err" => pre_result = Some(Err(db_log[k].res.err))

====
